---- MODULE Spec2Model ----
(***************************************************************************)
(* TrainableModule of labs/08/tagger_competition.py: the Keras-like        *)
(* configure / fit / evaluate / predict harness, its weight persistence    *)
(* and its TensorBoard scalar logging.                                     *)
(*                                                                         *)
(* Encoding.  A tensor is the sequence of its per-example values (numbers  *)
(* below NumValues).  A Python value that is either a tensor or a tuple is *)
(* a record [isTuple, elts, t].  A string is the sequence of its           *)
(* characters, so that prefix tests and slices are computed.  A dict is a  *)
(* function from its keys.  A mean is the reduced fraction <<num, den>>.   *)
(* Every entry of a metric record carries, next to its value v, the pass   *)
(* and the epoch that produced it (history data, not read by the program). *)
(***************************************************************************)
EXTENDS Integers, Sequences, FiniteSets, TLC

\* ---------------------------------------------------------------- bounds
MaxBatches == 2
MaxEpochs == 2
MaxCallbacks == 2
MaxConfigures == 2
NumValues == 3

\* --------------------------------------------------------------- strings
DEV_ == <<"d", "e", "v", "_">>
LOSS == <<"l", "o", "s", "s">>
LR == <<"l", "r">>
ACC == <<"a", "c", "c">>
DEV_LOSS == DEV_ \o LOSS

\* str.startswith
StartsWith(k, p) == Len(k) >= Len(p) /\ SubSeq(k, 1, Len(p)) = p
\* k[n:]
Slice(k, n) == SubSeq(k, n + 1, Len(k))

\* ----------------------------------------------------------------- dicts
EmptyDict == [k \in {} |-> 0]
\* a | b : the entries of b win
DictUnion(a, b) ==
    [k \in (DOMAIN a) \cup (DOMAIN b) |-> IF k \in DOMAIN b THEN b[k] ELSE a[k]]
\* {k: v for k, v in d.items() if k in keep}
Restrict(d, keep) == [k \in (DOMAIN d) \cap keep |-> d[k]]

\* ------------------------------------------------------------ arithmetic
RECURSIVE Gcd(_, _)
Gcd(a, b) == IF b = 0 THEN a ELSE Gcd(b, a % b)
\* the exact quotient a / b, b > 0, as a reduced fraction
Frac(a, b) == LET g == Gcd(a, b) IN <<a \div g, b \div g>>
Abs(a) == IF a < 0 THEN -a ELSE a
RECURSIVE SumSeq(_)
SumSeq(s) == IF s = <<>> THEN 0 ELSE Head(s) + SumSeq(Tail(s))

\* --------------------------------------------------------- Python values
Tensor(t) == [isTuple |-> FALSE, elts |-> <<>>, t |-> t]
Tuple(s) == [isTuple |-> TRUE, elts |-> s, t |-> <<>>]
\* xs if isinstance(xs, tuple) else (xs,)
AsTuple(xs) == IF xs.isTuple THEN xs.elts ELSE <<xs>>
\* every element of the tuple has a .to method, i.e. is a tensor
AllTensors(s) == \A i \in 1..Len(s) : ~s[i].isTuple

\* ------------------------------------------------- the wrapped computation
\* self.forward(*xs): one output per example, from the parameters and all
\* the tensors passed
Forward(p, xs) ==
    LET n == Len(xs[1].t)
    IN  [i \in 1..n |-> (p + SumSeq([j \in 1..Len(xs) |-> xs[j].t[i]])) % NumValues]
\* self.loss(y_pred, y)
LossFn(y_pred, y) == SumSeq([i \in 1..Len(y_pred) |-> Abs(y_pred[i] - y[i])])
\* the number of examples a metric counts as right
Matches(y_pred, y) == Cardinality({i \in 1..Len(y_pred) : y_pred[i] = y[i]})
\* loss.backward(): what is accumulated into the gradients
Gradient(loss) == 1 + (loss % 2)
\* self.optimizer.step()
OptimizerStep(p, g) == (p + g) % NumValues
\* self.schedule.step(), a cyclic schedule
ScheduleStep(s) == (s + 1) % NumValues
\* self.schedule.get_last_lr()[0]
LastLr(s) == Frac(s + 1, NumValues)

\* ---------------------------------------------------------- data sources
\* The i-th element of a training or evaluation data source: a pair of
\* inputs and an output, the inputs a single tensor or a tuple of tensors.
Batch(i) ==
    IF i % 2 = 1
    THEN [xs |-> Tensor(<<i % NumValues>>), y |-> Tensor(<<(i + 1) % NumValues>>)]
    ELSE [xs |-> Tuple(<<Tensor(<<1>>), Tensor(<<i % NumValues>>)>>), y |-> Tensor(<<0>>)]
\* A data source yields its n elements on every iteration ("list", as a
\* DataLoader does) or only once ("iter", a generator or another iterator).
Source(kind, n) == [kind |-> kind, n |-> n, used |-> 0]
NoSource == [kind |-> "none", n |-> 0, used |-> 0]
\* iter(dataloader): the indices the coming pass will see
Iterate(src) ==
    IF src.kind = "list" THEN [i \in 1..src.n |-> i]
    ELSE [i \in 1..(src.n - src.used) |-> src.used + i]

VARIABLES
    configured,     \* configure has run (the attributes exist)
    schedule,       \* a schedule is configured
    metrics,        \* the names of the configured auxiliary metrics
    logdir,         \* "None", "" or a directory
    device,         \* self.device: "unset", "cpu" or "cuda"
    cudaAvailable,  \* torch.cuda.is_available()
    params,         \* the learnable parameters
    paramDevice,    \* where the parameters are placed
    grad,           \* the accumulated gradients
    optState,       \* the optimizer's state
    schedState,     \* the schedule's state
    training,       \* the module's train/eval mode
    loss_metric,    \* MeanMetric: [sum, n]
    metric_state,   \* the MetricCollection's accumulators: [sum, n]
    writers,        \* self._writers: stream name -> [queue, file]
    files,          \* path -> the state dict saved there, or <<>>
    pc,             \* where the (single) thread of control is
    fit,            \* the frame of fit
    ev,             \* the frame of evaluate
    result,         \* the outcome of the last call
    created,        \* history: stream name -> SummaryWriters ever created
    saved,          \* history: path -> parameters and predictions at save time
    hist            \* history of the current call (not read by the program)

cfgVars == <<configured, schedule, metrics, logdir, device, cudaAvailable>>
netVars == <<params, paramDevice, grad, optState, schedState, training>>
accVars == <<loss_metric, metric_state>>
ctlVars == <<pc, fit, ev, result>>
logVars == <<writers, created>>
ioVars == <<files, saved>>
vars == <<cfgVars, netVars, accVars, logVars, ioVars, ctlVars, hist>>

Streams == {"train", "dev"}
Paths == {"weights.pt"}

\* ------------------------------------------------------ metric accumulators
\* torchmetrics.MeanMetric() / MetricCollection(metrics), freshly made
NewMetric == [sum |-> 0, n |-> 0]
\* Metric.reset()
Reset(m) == [sum |-> 0, n |-> 0]
\* Metric.update(value) with the given weight
Update(m, v, w) == [sum |-> m.sum + v, n |-> m.n + w]
\* Metric.compute(): the mean of what was accumulated since the reset
Compute(m) == Frac(m.sum, m.n)
\* one entry of a metric record, with the pass and the epoch that made it
Entry(v, pass, ep) == [v |-> v, pass |-> pass, ep |-> ep]

\* ------------------------------------------------------------ single steps
\* The statements of a step, in program order, and the state they work on:
\* p parameters, g gradients, o optimizer state, s schedule state, lm / mm
\* the accumulators, y_pred / loss the locals; nOpt, nSched and fwdGrad
\* record the optimizer steps, the schedule steps and the gradients the
\* forward computation started from.
\* (a fault: the gradients are not zeroed)
TrainStepOpsNoZeroGrad ==
    <<"forward", "loss", "backward", "optimizer.step">>
    \o (IF schedule THEN <<"schedule.step">> ELSE <<>>)
    \o <<"loss_metric.update", "metrics.update">>
\* (a fault: the evaluation step updates the parameters)
TestStepOpsUpdating ==
    <<"forward", "loss", "backward", "optimizer.step", "loss_metric.update", "metrics.update">>
TrainStepOps ==
    <<"zero_grad", "forward", "loss", "backward", "optimizer.step">>
    \o (IF schedule THEN <<"schedule.step">> ELSE <<>>)
    \o <<"loss_metric.update", "metrics.update">>
TestStepOps == <<"forward", "loss", "loss_metric.update", "metrics.update">>
PredictStepOps == <<"forward">>

StepState ==
    [p |-> params, g |-> grad, o |-> optState, s |-> schedState,
     lm |-> loss_metric, mm |-> metric_state,
     y_pred |-> <<>>, loss |-> 0, nOpt |-> 0, nSched |-> 0, fwdGrad |-> <<>>,
     raised |-> FALSE]

Apply(op, st, xs, y) ==
    CASE op = "zero_grad" -> [st EXCEPT !.g = 0]
      [] op = "forward" ->
            \* the inputs were moved to self.device; parameters elsewhere make
            \* the library raise
            IF device # paramDevice THEN [st EXCEPT !.raised = TRUE]
            ELSE [st EXCEPT !.y_pred = Forward(st.p, xs), !.fwdGrad = Append(@, st.g)]
      [] op = "loss" -> [st EXCEPT !.loss = LossFn(st.y_pred, y.t)]
      [] op = "backward" -> [st EXCEPT !.g = @ + Gradient(st.loss)]
      [] op = "optimizer.step" ->
            [st EXCEPT !.p = OptimizerStep(@, st.g), !.o = st.g, !.nOpt = @ + 1]
      [] op = "schedule.step" ->
            [st EXCEPT !.s = ScheduleStep(@), !.nSched = @ + 1]
      [] op = "loss_metric.update" -> [st EXCEPT !.lm = Update(@, st.loss, 1)]
      [] op = "metrics.update" ->
            [st EXCEPT !.mm = Update(@, Matches(st.y_pred, y.t), Len(st.y_pred))]

RECURSIVE Run(_, _, _, _)
Run(ops, st, xs, y) ==
    IF ops = <<>> \/ st.raised THEN st
    ELSE Run(Tail(ops), Apply(Head(ops), st, xs, y), xs, y)

\* {"loss": self.loss_metric.compute()} | self.metrics.compute()
MetricLogs(st, pass, ep) ==
    DictUnion((LOSS :> Entry(Compute(st.lm), pass, ep)),
              [k \in metrics |-> Entry(Compute(st.mm), pass, ep)])
\* the record train_step returns
TrainLogs(st, ep) ==
    DictUnion(DictUnion((LOSS :> Entry(Compute(st.lm), "train", ep)),
                        IF schedule THEN (LR :> Entry(LastLr(st.s), "train", ep))
                        ELSE EmptyDict),
              [k \in metrics |-> Entry(Compute(st.mm), "train", ep)])
\* the record test_step returns
TestLogs(st, ep) == MetricLogs(st, "test", ep)

\* the tensors of one forward/backward pass are on one device
SameDevice == device = paramDevice

\* ---------------------------------------------------------------- history
NewHist(call) ==
    [call |-> call, optSteps |-> 0, schedSteps |-> 0, trainBatches |-> 0,
     stepOps |-> <<>>, fwdGrad |-> <<>>, pass |-> "none", passLosses |-> <<>>,
     trace |-> <<>>, before |-> <<>>, inputs |-> <<>>, fwdArgs |-> <<>>,
     evalEntry |-> <<>>, lastTrain |-> EmptyDict, path |-> ""]
\* an event of the trace of fit
Event(what, a, e, logs) == [what |-> what, a |-> a, epoch |-> e, logs |-> logs]

Unbound == [bound |-> FALSE, d |-> EmptyDict]
Bound(d) == [bound |-> TRUE, d |-> d]
NoFit ==
    [src |-> NoSource, dev |-> NoSource, epochs |-> 0, ncb |-> 0, epoch |-> 0,
     cbi |-> 0, left |-> <<>>, logs |-> Unbound]
NoEval == [src |-> NoSource, left |-> <<>>, logs |-> Unbound, caller |-> "none"]
Outcome(call, status, value) == [call |-> call, status |-> status, value |-> value]

Init ==
    /\ configured = FALSE /\ schedule = FALSE /\ metrics = {} /\ logdir = "None"
    /\ device = "unset" /\ cudaAvailable \in BOOLEAN
    /\ params = 0 /\ paramDevice = "cpu" /\ grad = 0 /\ optState = 0
    /\ schedState = 0 /\ training = TRUE
    /\ loss_metric = NewMetric /\ metric_state = NewMetric
    /\ writers = EmptyDict
    /\ created = [total |-> [s \in Streams |-> 0], base |-> [s \in Streams |-> 0]]
    /\ files = [f \in Paths |-> <<>>] /\ saved = [f \in Paths |-> [params |-> -1, device |-> "none", paramDevice |-> "none",
                                    preds |-> [raised |-> TRUE, predictions |-> <<>>]]]
    /\ pc = "idle" /\ fit = NoFit /\ ev = NoEval
    /\ result = Outcome("none", "none", EmptyDict)
    /\ hist = NewHist("none")

\* an exception leaves the running call
Raise ==
    /\ pc' = "done"
    /\ result' = Outcome(hist.call, "error", EmptyDict)

\* ------------------------------------------------------------- configure
\* torch.device(("cuda" if torch.cuda.is_available() else "cpu") if device == "auto" else device)
SelectDevice(d) == IF d = "auto" THEN (IF cudaAvailable THEN "cuda" ELSE "cpu") ELSE d
\* the selectors a caller can pass without the library raising
Selectors == {d \in {"auto", "cpu", "cuda"} : SelectDevice(d) = "cuda" => cudaAvailable}

Configure(sched, mets, ld, d) ==
    /\ pc = "idle"
    /\ d \in Selectors
    /\ configured' = TRUE
    /\ schedule' = sched /\ optState' = 0 /\ schedState' = 0
    /\ loss_metric' = NewMetric /\ metric_state' = NewMetric
    /\ metrics' = mets
    /\ logdir' = ld /\ writers' = EmptyDict
    /\ device' = SelectDevice(d)
    /\ paramDevice' = SelectDevice(d)
    /\ result' = Outcome("configure", "ok", EmptyDict)
    /\ hist' = NewHist("configure")
    /\ created' = [created EXCEPT !.base = created.total]
    /\ pc' = "done"
    /\ UNCHANGED <<cudaAvailable, params, grad, training, ioVars, fit, ev>>

\* ------------------------------------------------------------ scalar logs
\* a SummaryWriter: the scalars added and not yet flushed, and its event file
NewWriter == [queue |-> {}, file |-> {}]
Scalar(key, value, step) == [key |-> key, value |-> value, step |-> step]
\* bool(x) of a log directory or of a dict
TruthyDir(ld) == ld \notin {"None", ""}
TruthyDict(d) == DOMAIN d # {}
\* SummaryWriter.flush()
Flush(w) == [queue |-> {}, file |-> w.file \cup w.queue]
\* (a fault: a writer is made on every call)
WriterAlwaysNew(st, name) ==
    [writers |-> DictUnion(st.writers, (name :> NewWriter)),
     total |-> [st.total EXCEPT ![name] = @ + 1]]
\* self.writer(name), on the pair of self._writers and the creation count
Writer(st, name) ==
    IF name \notin DOMAIN st.writers
    THEN [writers |-> DictUnion(st.writers, (name :> NewWriter)),
          total |-> [st.total EXCEPT ![name] = @ + 1]]
    ELSE st
\* self.add_logs(name, logs, step)
AddLogsTo(st, name, logs, step) ==
    IF TruthyDict(logs) /\ TruthyDir(logdir)
    THEN LET st1 == Writer(st, name)
             added == {Scalar(k, logs[k], step) : k \in DOMAIN logs}
             w1 == [st1.writers[name] EXCEPT !.queue = @ \cup added]
         IN  [st1 EXCEPT !.writers[name] = Flush(w1)]
    ELSE st
LogState == [writers |-> writers, total |-> created.total]

\* a record a caller may pass to add_logs
UserLogs == <<EmptyDict, (LOSS :> Entry(<<1, 1>>, "user", 0))>>

AddLogs(name, logs, step) ==
    /\ pc = "idle" /\ configured
    /\ LET st == AddLogsTo(LogState, name, logs, step)
       IN  /\ writers' = st.writers
           /\ created' = [created EXCEPT !.total = st.total]
    /\ result' = Outcome("add_logs", "ok", EmptyDict)
    /\ hist' = NewHist("add_logs")
    /\ pc' = "done"
    /\ UNCHANGED <<cfgVars, netVars, accVars, ioVars, fit, ev>>

\* ------------------------------------------------------------------- fit
\* {k: v for k, v in logs.items() if not k.startswith("dev_")}
TrainPart(logs) == Restrict(logs, {k \in DOMAIN logs : ~StartsWith(k, DEV_)})
\* (a fault: one character too few is cut off)
DevSliceShort(k) == Slice(k, 3)
\* {k[4:]: v for k, v in logs.items() if k.startswith("dev_")}
DevSlice(k) == Slice(k, 4)
DevPart(logs) ==
    LET d == Restrict(logs, {k \in DOMAIN logs : StartsWith(k, DEV_)})
    IN  [k2 \in {DevSlice(k) : k \in DOMAIN d} |->
            d[CHOOSE k \in DOMAIN d : DevSlice(k) = k2]]
\* {"dev_" + k: v for k, v in ....items()}
DevKey(k) == DEV_ \o k
DevPrefixed(logs) ==
    [k2 \in {DevKey(k) : k \in DOMAIN logs} |->
        logs[CHOOSE k \in DOMAIN logs : DevKey(k) = k2]]

\* (a fault: the accumulators are carried over into the next epoch)
TrainResetMissing(m) == m
\* self.loss_metric.reset(); self.metrics.reset() at the start of an epoch
TrainReset(m) == Reset(m)
\* the same at the start of evaluate
EvalReset(m) == Reset(m)

\* (before configure the attributes fit reads do not exist: such calls raise
\* at once and are left out, here and for evaluate and add_logs)
FitCall(kind, n, epochs, dev, ncb) ==
    /\ pc = "idle" /\ configured
    /\ fit' = [NoFit EXCEPT !.src = Source(kind, n), !.dev = dev,
                             !.epochs = epochs, !.ncb = ncb]
    /\ pc' = "fit_epoch"
    /\ result' = Outcome("fit", "running", EmptyDict)
    /\ hist' = NewHist("fit")
    /\ UNCHANGED <<cfgVars, netVars, accVars, logVars, ioVars, ev>>

\* for epoch in range(epochs): ... the head of the loop body
FitEpochStart ==
    /\ pc = "fit_epoch" /\ fit.epoch < fit.epochs
    /\ training' = TRUE
    /\ loss_metric' = TrainReset(loss_metric)
    /\ metric_state' = TrainReset(metric_state)
    /\ fit' = [fit EXCEPT !.left = Iterate(fit.src)]
    /\ pc' = "fit_batch"
    /\ hist' = [hist EXCEPT !.pass = "train", !.passLosses = <<>>]
    /\ UNCHANGED <<cfgVars, params, paramDevice, grad, optState, schedState,
                   logVars, ioVars, ev, result>>

\* one iteration of for xs, y in data_and_progress
FitBatch ==
    /\ pc = "fit_batch" /\ fit.left # <<>>
    /\ LET b == Batch(Head(fit.left))
           st == Run(TrainStepOps, StepState, AsTuple(b.xs), b.y)
       IN  /\ grad' = st.g
           /\ IF st.raised
              THEN /\ Raise
                   /\ UNCHANGED <<params, optState, schedState, accVars, fit, hist>>
              ELSE /\ params' = st.p /\ optState' = st.o /\ schedState' = st.s
                   /\ loss_metric' = st.lm /\ metric_state' = st.mm
                   /\ fit' = [fit EXCEPT !.left = Tail(@), !.src.used = @ + 1,
                                         !.logs = Bound(TrainLogs(st, fit.epoch))]
                   /\ hist' = [hist EXCEPT !.optSteps = @ + st.nOpt,
                                           !.schedSteps = @ + st.nSched,
                                           !.trainBatches = @ + 1,
                                           !.stepOps = TrainStepOps,
                                           !.fwdGrad = st.fwdGrad,
                                           !.lastTrain = TrainLogs(st, fit.epoch),
                                           !.passLosses = Append(@, st.loss)]
                   /\ UNCHANGED <<pc, result>>
    /\ UNCHANGED <<cfgVars, paramDevice, training, logVars, ioVars, ev>>

\* the training data is exhausted: if dev is not None: logs |= {...}
FitBatchesDone ==
    /\ pc = "fit_batch" /\ fit.left = <<>>
    /\ hist' = [hist EXCEPT !.trace =
                    Append(@, Event("trained", Len(hist.passLosses), fit.epoch, EmptyDict))]
    /\ IF fit.dev.kind = "none"
       THEN pc' = "fit_cb" /\ UNCHANGED <<ev, result>>
       ELSE IF ~fit.logs.bound
       THEN \* logs is read before evaluate is called
            Raise /\ UNCHANGED ev
       ELSE /\ ev' = [NoEval EXCEPT !.src = fit.dev, !.caller = "fit"]
            /\ pc' = "eval_start"
            /\ UNCHANGED result
    /\ UNCHANGED <<cfgVars, netVars, accVars, logVars, ioVars, fit>>

\* (a fault: the callbacks get the 1-based epoch)
CallbackEpochOneBased == fit.epoch + 1
\* the epoch argument of callback(self, epoch, logs)
CallbackEpoch == fit.epoch

\* for callback in callbacks: callback(self, epoch, logs)
FitCallback ==
    /\ pc = "fit_cb" /\ fit.cbi < fit.ncb
    /\ IF ~fit.logs.bound
       THEN Raise /\ UNCHANGED <<fit, hist>>
       ELSE /\ fit' = [fit EXCEPT !.cbi = @ + 1]
            /\ hist' = [hist EXCEPT !.trace =
                            Append(@, Event("callback", fit.cbi + 1, CallbackEpoch, fit.logs.d))]
            /\ UNCHANGED <<pc, result>>
    /\ UNCHANGED <<cfgVars, netVars, accVars, logVars, ioVars, ev>>

\* the two add_logs calls that end the loop body
FitAddLogs ==
    /\ pc = "fit_cb" /\ fit.cbi = fit.ncb
    /\ IF ~fit.logs.bound
       THEN Raise /\ UNCHANGED <<fit, hist, logVars>>
       ELSE LET st1 == AddLogsTo(LogState, "train", TrainPart(fit.logs.d), fit.epoch + 1)
                st2 == AddLogsTo(st1, "dev", DevPart(fit.logs.d), fit.epoch + 1)
            IN  /\ writers' = st2.writers
                /\ created' = [created EXCEPT !.total = st2.total]
                /\ fit' = [fit EXCEPT !.epoch = @ + 1, !.cbi = 0]
                /\ pc' = "fit_epoch"
                /\ hist' = [hist EXCEPT !.trace = @ \o
                      <<Event("add_logs", "train", fit.epoch + 1, TrainPart(fit.logs.d)),
                        Event("add_logs", "dev", fit.epoch + 1, DevPart(fit.logs.d))>>]
                /\ UNCHANGED result
    /\ UNCHANGED <<cfgVars, netVars, accVars, ioVars, ev>>

\* return logs
FitReturn ==
    /\ pc = "fit_epoch" /\ fit.epoch = fit.epochs
    /\ IF fit.logs.bound
       THEN pc' = "done" /\ result' = Outcome("fit", "ok", fit.logs.d)
       ELSE Raise
    /\ UNCHANGED <<cfgVars, netVars, accVars, logVars, ioVars, fit, ev, hist>>

\* -------------------------------------------------------------- evaluate
EvaluateCall(n) ==
    /\ pc = "idle" /\ configured
    /\ ev' = [NoEval EXCEPT !.src = Source("list", n), !.caller = "top"]
    /\ pc' = "eval_start"
    /\ result' = Outcome("evaluate", "running", EmptyDict)
    /\ hist' = NewHist("evaluate")
    /\ UNCHANGED <<cfgVars, netVars, accVars, logVars, ioVars, fit>>

\* self.eval() and the two resets
EvalStart ==
    /\ pc = "eval_start"
    /\ training' = FALSE
    /\ loss_metric' = EvalReset(loss_metric)
    /\ metric_state' = EvalReset(metric_state)
    /\ ev' = [ev EXCEPT !.left = Iterate(ev.src)]
    /\ pc' = "eval_batch"
    /\ hist' = [hist EXCEPT !.pass = "test", !.passLosses = <<>>,
                            !.evalEntry = <<params, optState, schedState,
                                            hist.optSteps, hist.schedSteps>>]
    /\ UNCHANGED <<cfgVars, params, paramDevice, grad, optState, schedState,
                   logVars, ioVars, fit, result>>

\* one iteration of for xs, y in dataloader
EvalBatch ==
    /\ pc = "eval_batch" /\ ev.left # <<>>
    /\ LET b == Batch(Head(ev.left))
           st == Run(TestStepOps, StepState, AsTuple(b.xs), b.y)
       IN  /\ params' = st.p /\ grad' = st.g /\ optState' = st.o /\ schedState' = st.s
           /\ IF st.raised
              THEN /\ Raise
                   /\ UNCHANGED <<accVars, ev, hist>>
              ELSE /\ loss_metric' = st.lm /\ metric_state' = st.mm
                   /\ ev' = [ev EXCEPT !.left = Tail(@), !.src.used = @ + 1,
                        !.logs = Bound(TestLogs(st,
                                   IF ev.caller = "fit" THEN fit.epoch ELSE -1))]
                   /\ hist' = [hist EXCEPT !.optSteps = @ + st.nOpt,
                                           !.schedSteps = @ + st.nSched,
                                           !.passLosses = Append(@, st.loss)]
                   /\ UNCHANGED <<pc, result>>
    /\ UNCHANGED <<cfgVars, paramDevice, training, logVars, ioVars, fit>>

\* return logs, to the caller or into logs |= {"dev_" + k: v ...} of fit
EvalReturn ==
    /\ pc = "eval_batch" /\ ev.left = <<>>
    /\ IF ~ev.logs.bound
       THEN Raise /\ UNCHANGED <<fit, hist>>
       ELSE IF ev.caller = "top"
       THEN /\ pc' = "done"
            /\ result' = Outcome("evaluate", "ok", ev.logs.d)
            /\ UNCHANGED <<fit, hist>>
       ELSE /\ fit' = [fit EXCEPT !.dev = ev.src,
                         !.logs = Bound(DictUnion(fit.logs.d, DevPrefixed(ev.logs.d)))]
            /\ pc' = "fit_cb"
            /\ hist' = [hist EXCEPT !.trace =
                  Append(@, Event("evaluated", Len(hist.passLosses), fit.epoch, ev.logs.d))]
            /\ UNCHANGED result
    /\ UNCHANGED <<cfgVars, netVars, accVars, logVars, ioVars, ev>>

\* --------------------------------------------------------------- predict
\* What a prediction data source may hold: each element is directly the
\* input or a tuple whose first element is the input; the input is a single
\* tensor or a tuple of tensors.  input is the tuple of tensors the caller
\* means the model to see.
X0 == Tensor(<<1>>)
X1 == Tensor(<<1, 2>>)
X2 == Tensor(<<2, 0>>)
Y1 == Tensor(<<0, 1>>)
Elements ==
    <<[val |-> X0, input |-> <<X0>>],
      [val |-> Tuple(<<X1, X2>>), input |-> <<X1, X2>>],
      [val |-> Tuple(<<X1, Y1>>), input |-> <<X1>>],
      [val |-> Tuple(<<Tuple(<<X1, X2>>), Y1>>), input |-> <<X1, X2>>]>>

\* xs = batch[0] if isinstance(batch, tuple) else batch
PredictInput(batch) == IF batch.isTuple THEN batch.elts[1] ELSE batch

\* the loop of predict over the elements es, from the accumulated acc
RECURSIVE PredictLoop(_, _)
PredictLoop(es, acc) ==
    IF es = <<>> \/ acc.raised THEN acc
    ELSE LET xs == AsTuple(PredictInput(Head(es).val))
             st == Run(PredictStepOps, acc.st, xs, Y1)
         IN  IF ~AllTensors(xs) \/ st.raised THEN [acc EXCEPT !.raised = TRUE]
             ELSE PredictLoop(Tail(es),
                    [acc EXCEPT !.predictions = @ \o st.y_pred,
                                !.fwdArgs = Append(@, xs),
                                !.st = st])

Predict(es) ==
    /\ pc = "idle"
    /\ training' = FALSE
    /\ IF device = "unset"
       THEN \* self.device does not exist yet
            /\ result' = Outcome("predict", "error", EmptyDict)
            /\ hist' = NewHist("predict")
            /\ UNCHANGED <<params, grad, optState, schedState, accVars>>
       ELSE LET r == PredictLoop(es, [predictions |-> <<>>, fwdArgs |-> <<>>,
                                      st |-> StepState, raised |-> FALSE])
            IN  /\ params' = r.st.p /\ grad' = r.st.g /\ optState' = r.st.o
                /\ schedState' = r.st.s
                /\ loss_metric' = r.st.lm /\ metric_state' = r.st.mm
                /\ result' = IF r.raised THEN Outcome("predict", "error", EmptyDict)
                              ELSE Outcome("predict", "ok", r.predictions)
                /\ hist' = [NewHist("predict") EXCEPT
                              !.inputs = [i \in 1..Len(es) |-> es[i].input],
                              !.fwdArgs = r.fwdArgs,
                              !.before = <<params, loss_metric, metric_state>>]
    /\ pc' = "done"
    /\ UNCHANGED <<cfgVars, paramDevice, logVars, ioVars, fit, ev>>

\* ----------------------------------------------------- weight persistence
\* self.state_dict()
StateDict == <<params>>
\* torch.save(state_dict, path): the file holds the values as they are now
TorchSave(fs, path, sd) == [fs EXCEPT ![path] = sd]
\* (a fault: the loaded values are not copied into the parameters)
LoadStateDictDropped(p, sd) == p
\* self.load_state_dict(...): the values are copied into the parameters
\* where these are
LoadStateDict(p, sd) == sd[1]

\* what predict returns now on a fixed data source
ProbeData == <<Elements[1], Elements[3], Elements[4]>>
ProbePredictions ==
    IF device = "unset" THEN [raised |-> TRUE, predictions |-> <<>>]
    ELSE LET r == PredictLoop(ProbeData, [predictions |-> <<>>, fwdArgs |-> <<>>,
                                          st |-> StepState, raised |-> FALSE])
         IN  [raised |-> r.raised, predictions |-> IF r.raised THEN <<>> ELSE r.predictions]

SaveWeights(path) ==
    /\ pc = "idle"
    /\ files' = TorchSave(files, path, StateDict)
    /\ saved' = [saved EXCEPT ![path] =
                    [params |-> params, device |-> device, paramDevice |-> paramDevice,
                     preds |-> ProbePredictions]]
    /\ result' = Outcome("save_weights", "ok", EmptyDict)
    /\ hist' = NewHist("save_weights")
    /\ pc' = "done"
    /\ UNCHANGED <<cfgVars, netVars, accVars, logVars, fit, ev>>

LoadWeights(path, d) ==
    /\ pc = "idle"
    /\ d \in Selectors
    /\ device' = SelectDevice(d)
    /\ IF files[path] = <<>>
       THEN \* torch.load raises, after self.device was assigned
            /\ result' = Outcome("load_weights", "error", EmptyDict)
            /\ UNCHANGED params
       ELSE /\ params' = LoadStateDict(params, files[path])
            /\ result' = Outcome("load_weights", "ok", EmptyDict)
    /\ hist' = [NewHist("load_weights") EXCEPT !.before = <<params, device>>,
                                               !.path = path]
    /\ pc' = "done"
    /\ UNCHANGED <<configured, schedule, metrics, logdir, cudaAvailable, paramDevice,
                   grad, optState, schedState, training, accVars, logVars, ioVars,
                   fit, ev>>

\* the caller has the outcome of its call and goes on
Continue ==
    /\ pc = "done"
    /\ pc' = "idle"
    /\ fit' = NoFit /\ ev' = NoEval
    /\ result' = Outcome("none", "none", EmptyDict)
    /\ hist' = NewHist("none")
    /\ UNCHANGED <<cfgVars, netVars, accVars, logVars, ioVars>>

\* ------------------------------------------------------------ the inputs
MetricSets == {{}, {ACC}, {DEV_LOSS}}
LogDirs == {"None", "", "logs"}
Sources ==
    {Source("list", n) : n \in 0..MaxBatches} \cup {Source("iter", n) : n \in 1..MaxBatches}
DevSources == {NoSource} \cup Sources
RECURSIVE SeqsUpTo(_, _)
SeqsUpTo(S, n) ==
    IF n = 0 THEN {<<>>}
    ELSE LET shorter == SeqsUpTo(S, n - 1)
         IN  shorter \cup {Append(q, x) : q \in {r \in shorter : Len(r) = n - 1}, x \in S}
ElementSeqs ==
    {[i \in 1..Len(q) |-> Elements[q[i]]] : q \in SeqsUpTo(1..Len(Elements), MaxBatches)}

FitSteps ==
    \/ FitEpochStart
    \/ FitBatch
    \/ FitBatchesDone
    \/ FitCallback
    \/ FitAddLogs
    \/ FitReturn
EvalSteps ==
    \/ EvalStart
    \/ EvalBatch
    \/ EvalReturn

\* Training scenarios: no log directory, no accelerator.
NextFit ==
    \/ \E sched \in BOOLEAN, mets \in MetricSets : Configure(sched, mets, "None", "auto")
    \/ \E src \in Sources, epochs \in {1, MaxEpochs}, dev \in DevSources, ncb \in 0..MaxCallbacks :
          FitCall(src.kind, src.n, epochs, dev, ncb)
    \/ \E n \in 0..MaxBatches : EvaluateCall(n)
    \/ FitSteps
    \/ EvalSteps
    \/ Continue

InitFit == Init /\ ~cudaAvailable
SpecFit == InitFit /\ [][NextFit]_vars

\* Device and persistence scenarios: no schedule, metrics or log directory.
NextIO ==
    \/ \E d \in {"auto", "cpu", "cuda"} : Configure(FALSE, {}, "None", d)
    \/ \E path \in Paths : SaveWeights(path)
    \/ \E path \in Paths, d \in {"auto", "cpu", "cuda"} : LoadWeights(path, d)
    \/ \E n \in 1..MaxBatches : FitCall("list", n, 1, NoSource, 0)
    \/ \E es \in ElementSeqs : Predict(es)
    \/ FitEpochStart
    \/ FitBatch
    \/ FitBatchesDone
    \/ FitAddLogs
    \/ FitReturn
    \/ Continue

SpecIO == Init /\ [][NextIO]_vars

\* Logging scenarios: at most MaxConfigures writers are made per stream, and
\* one fit logs under each configuration.
LogSources == {NoSource} \cup {Source("list", n) : n \in 0..1}
NoFitLogged ==
    \A name \in DOMAIN writers : \A e \in writers[name].file : e.value.pass = "user"
NextLog ==
    \/ \E sched \in BOOLEAN, mets \in MetricSets, ld \in LogDirs :
          /\ \A name \in Streams : created.total[name] < MaxConfigures
          /\ Configure(sched, mets, ld, "auto")
    \/ \E name \in Streams, i \in 1..Len(UserLogs) : AddLogs(name, UserLogs[i], 1)
    \/ \E epochs \in {1, MaxEpochs}, dev \in LogSources, ncb \in 0..1 :
          /\ NoFitLogged
          /\ FitCall("list", 1, epochs, dev, ncb)
    \/ FitSteps
    \/ EvalSteps
    \/ Continue

SpecLog == InitFit /\ [][NextLog]_vars

\* ================================================================ claims
FitReturned == pc = "done" /\ result.call = "fit" /\ result.status = "ok"
Count(q, x) == Cardinality({i \in 1..Len(q) : q[i] = x})
IndexOf(q, x) == CHOOSE i \in 1..Len(q) : q[i] = x

\* C1: the record fit returns is the record of the final epoch: every entry
\* of it was produced in epoch E - 1 (0-based), the entries without the dev_
\* prefix by a train step and the entries with it by the dev pass.
C1_FitReturnsFinalEpochRecord ==
    FitReturned =>
        \A k \in DOMAIN result.value :
            /\ result.value[k].ep = fit.epochs - 1
            /\ result.value[k].pass =
                    (IF fit.dev.kind # "none" /\ StartsWith(k, DEV_) THEN "test" ELSE "train")

\* C2: in every pass the accumulators hold the batches of that pass only,
\* and the loss reported after the k-th batch is the plain mean of the k
\* per-batch loss values of the pass.
C2_LossIsMeanOfPass ==
    hist.passLosses # <<>> =>
        LET logs == IF hist.pass = "train" THEN fit.logs ELSE ev.logs
        IN  /\ logs.bound
            /\ logs.d[LOSS].v = Frac(SumSeq(hist.passLosses), Len(hist.passLosses))
            /\ loss_metric = [sum |-> SumSeq(hist.passLosses), n |-> Len(hist.passLosses)]
\* in the second epoch of a fit with a dev pass, after its second batch
C2_Witness ==
    /\ pc = "fit_batch" /\ fit.epoch = 1 /\ fit.dev.kind # "none"
    /\ hist.pass = "train" /\ Len(hist.passLosses) = 2

\* C3: from the entry of evaluate on, also as the dev pass of fit, the
\* parameters, the optimizer state and the schedule state are those at the
\* entry, and no optimizer or schedule step is taken.
C3_EvaluateMutatesNothing ==
    hist.pass = "test" =>
        <<params, optState, schedState, hist.optSteps, hist.schedSteps>> = hist.evalEntry
\* a dev pass of two batches has returned into fit after training steps
C3_Witness ==
    /\ pc = "fit_cb" /\ hist.pass = "test" /\ Len(hist.passLosses) = 2
    /\ hist.optSteps > 0 /\ schedule

Callbacks == SelectSeq(hist.trace, LAMBDA e : e.what = "callback")
C5_DevicePlacement ==
    (pc = "done" /\ result.call \in {"configure", "load_weights"} /\ result.status = "ok")
        => SameDevice

\* C6: load_weights on the device and placement of save time brings back
\* the parameters saved, and predict returns what it returned at save time.
LoadReturned == pc = "done" /\ result.call = "load_weights" /\ result.status = "ok"
SameDeviceAsSaved(path) ==
    /\ device = saved[path].device /\ paramDevice = saved[path].paramDevice
    /\ ~saved[path].preds.raised
C6_SaveLoadRoundTrip ==
    (LoadReturned /\ SameDeviceAsSaved(hist.path)) =>
        /\ params = saved[hist.path].params
        /\ ProbePredictions = saved[hist.path].preds
\* the parameters had been trained away from the saved ones
C6_Witness ==
    /\ LoadReturned /\ SameDeviceAsSaved(hist.path)
    /\ hist.before[1] # params

\* C9: predict passes to the forward computation, for every element, the
\* whole input and nothing else, returns one prediction per example in
\* order, and changes neither the parameters nor the accumulators.
PredictReturned == pc = "done" /\ result.call = "predict" /\ result.status = "ok"
C9_PredictWholeInput ==
    PredictReturned =>
        /\ hist.fwdArgs = hist.inputs
        /\ Len(result.value) = SumSeq([i \in 1..Len(hist.inputs) |-> Len(hist.inputs[i][1].t)])
        /\ <<params, loss_metric, metric_state>> = hist.before

\* C8 as claimed: over the lifetime of the module no stream has had more
\* than one writer created for it.
C8_OneWriterPerLifetime == \A name \in Streams : created.total[name] <= 1
\* C8 as amended: since the last configure call at most one writer has been
\* created per stream, it is the one self._writers holds, it was created by
\* an add_logs call with a non-empty record and a log directory set, and
\* every scalar added to it has been flushed.
C8_OneWriterPerConfigure ==
    \A name \in Streams :
        /\ created.total[name] - created.base[name] =
              (IF name \in DOMAIN writers THEN 1 ELSE 0)
        /\ name \in DOMAIN writers =>
              /\ TruthyDir(logdir)
              /\ writers[name].file # {}
              /\ writers[name].queue = {}
\* second configuration, a fit without dev data has logged two epochs
C8_Witness ==
    /\ created.total["train"] = 2 /\ "train" \in DOMAIN writers
    /\ "dev" \notin DOMAIN writers
    /\ FitReturned /\ fit.epochs = 2 /\ fit.dev.kind = "none"

\* the state right after the add_logs calls that end an epoch of fit
EpochLogged == hist.call = "fit" /\ pc = "fit_epoch" /\ fit.epoch >= 1 /\ TruthyDir(logdir)
FileOf(name) == IF name \in DOMAIN writers THEN writers[name].file ELSE {}
DevGiven == fit.dev.kind # "none"
\* C10 as claimed (with a log directory set): at the end of epoch e every
\* entry of the train step is in the train stream at step e + 1 under its
\* name, whatever the name, and is not overwritten in the record; every
\* entry of the dev pass is in the dev stream at step e + 1 under its name;
\* no entry of a train step is in the dev stream.
C10_StreamsDistinct ==
    EpochLogged =>
        /\ \A k \in DOMAIN hist.lastTrain :
              /\ Scalar(k, hist.lastTrain[k], fit.epoch) \in FileOf("train")
              /\ fit.logs.d[k] = hist.lastTrain[k]
        /\ DevGiven =>
              \A k \in DOMAIN ev.logs.d :
                 Scalar(k, ev.logs.d[k], fit.epoch) \in FileOf("dev")
        /\ \A e \in FileOf("dev") : e.value.pass # "train"
\* C10 as amended: the same for the train-step entries whose name does not
\* start with dev_; the only train-step entries in the dev stream are those
\* of metrics named dev_...
C10_StreamsDistinctByPrefix ==
    EpochLogged =>
        /\ \A k \in DOMAIN hist.lastTrain :
              ~StartsWith(k, DEV_) =>
                 /\ Scalar(k, hist.lastTrain[k], fit.epoch) \in FileOf("train")
                 /\ fit.logs.d[k] = hist.lastTrain[k]
        /\ DevGiven =>
              \A k \in DOMAIN ev.logs.d :
                 Scalar(k, ev.logs.d[k], fit.epoch) \in FileOf("dev")
        /\ \A e \in FileOf("dev") :
              e.value.pass = "train" => (DEV_ \o e.key) \in metrics
\* second epoch logged, with a schedule, a metric and a dev pass
C10_Witness ==
    /\ EpochLogged /\ fit.epoch = 2 /\ DevGiven /\ schedule /\ metrics = {ACC}
    /\ Cardinality(FileOf("train")) >= 6 /\ Cardinality(FileOf("dev")) >= 4
====
